---- MODULE Spec2Model ----
(***************************************************************************)
(* A model of the Steam recommender (src/main.py): the tag-weight profiler *)
(* calculate_tag_weights, the candidate ranker find_recommendations and    *)
(* the button handler of main that calls them.                             *)
(*                                                                         *)
(* Python values are modelled as follows.                                  *)
(*   dict    a record; a key the dict lacks is a field the record lacks    *)
(*   list    a sequence                                                    *)
(*   the games database (a dict loaded from JSON, iterated in insertion    *)
(*           order): a sequence of <<app_id, data>> pairs, distinct keys   *)
(*   tags    [type |-> "list", items |-> <<tag, ...>>] or                  *)
(*           [type |-> "dict", items |-> <<tag, ...>>] (the keys, in       *)
(*           insertion order, hence distinct)                              *)
(*   str     a TLA+ string; a string that is sliced (release_date) is a    *)
(*           sequence of one-character strings                             *)
(*   float   an IEEE-754 binary64 value >= 0, see Float below              *)
(***************************************************************************)
EXTENDS Integers, Sequences, FiniteSets

VARIABLES
    pc,               \* where the run is
    all_games_db,     \* the games database
    user_games,       \* the usage records
    owned_ids,        \* the set of owned app ids (strings)
    min_year,         \* year_threshold / min_year
    limit,            \* the display limit of main
    check_price,      \* the price checkbox of main
    tag_weights,      \* the result of calculate_tag_weights: tag -> weight
    valid_count,      \*   and its valid_games_count
    recommendations,  \* the result of find_recommendations
    top_recs,         \* recommendations[:limit], enriched in place
    idx,              \* the position of the price loop
    calls             \* the calls the run has made so far, in order

vars == <<pc, all_games_db, user_games, owned_ids, min_year, limit, check_price,
          tag_weights, valid_count, recommendations, top_recs, idx, calls>>

(***************************************************************************)
(* Program constants.                                                      *)
(***************************************************************************)
MIN_PLAYTIME_MINUTES == 120
MIN_REVIEWS_COUNT == 20000
current_year == 2026

(***************************************************************************)
(* Float: a binary64 value >= 0 is [exp |-> e, man |-> <<m1, m2, m3, m4>>] *)
(* with value M * 2^(e - 52), M = m1*B^3 + m2*B^2 + m3*B + m4 the 53-bit   *)
(* significand (2^52 <= M < 2^53) in limbs of LimbBits bits; zero has the  *)
(* significand 0 and an exponent below every other.  Division and          *)
(* multiplication round to nearest, ties to even, as the hardware does.    *)
(***************************************************************************)
LimbBits == 14
TopBits == 11

RECURSIVE Pow2(_)
Pow2(n) == IF n = 0 THEN 1 ELSE 2 * Pow2(n - 1)

B == Pow2(LimbBits)

FZero == [exp |-> -2000, man |-> <<0, 0, 0, 0>>]

\* the significand plus one unit in the last place, renormalised
FRoundUp(e, m) ==
    LET c4 == m[4] + 1
        c3 == m[3] + c4 \div B
        c2 == m[2] + c3 \div B
        c1 == m[1] + c2 \div B
    IN  IF c1 = Pow2(TopBits)
        THEN [exp |-> e + 1, man |-> <<Pow2(TopBits - 1), 0, 0, 0>>]
        ELSE [exp |-> e, man |-> <<c1, c2 % B, c3 % B, c4 % B>>]

\* a / b scaled so that 1 <= a/b < 2, with the power of two taken out
RECURSIVE FNormalize(_, _, _)
FNormalize(a, b, e) ==
    IF a < b THEN FNormalize(2 * a, b, e - 1)
    ELSE IF a >= 2 * b THEN FNormalize(a, 2 * b, e + 1)
    ELSE <<a, b, e>>

\* Python's a / b on ints a >= 0, b > 0: the correctly rounded quotient
FDiv(a, b) ==
    IF a = 0 THEN FZero
    ELSE
    LET n  == FNormalize(a, b, 0)
        d  == n[2]
        t1 == (n[1] - d) * Pow2(TopBits - 1)
        t2 == (t1 % d) * B
        t3 == (t2 % d) * B
        t4 == (t3 % d) * B
        r  == t4 % d
        m  == <<Pow2(TopBits - 1) + t1 \div d, t2 \div d, t3 \div d, t4 \div d>>
        up == 2 * r > d \/ (2 * r = d /\ m[4] % 2 = 1)
    IN  IF up THEN FRoundUp(n[3], m) ELSE [exp |-> n[3], man |-> m]

\* Python's x * y on floats >= 0
FMul(x, y) ==
    IF x = FZero \/ y = FZero THEN FZero
    ELSE
    LET a  == x.man
        b  == y.man
        \* the 106-bit product, column by column from the lowest limb
        s0 == a[4] * b[4]
        s1 == a[3] * b[4] + a[4] * b[3] + s0 \div B
        s2 == a[2] * b[4] + a[3] * b[3] + a[4] * b[2] + s1 \div B
        s3 == a[1] * b[4] + a[2] * b[3] + a[3] * b[2] + a[4] * b[1] + s2 \div B
        s4 == a[1] * b[3] + a[2] * b[2] + a[3] * b[1] + s3 \div B
        s5 == a[1] * b[2] + a[2] * b[1] + s4 \div B
        s6 == a[1] * b[1] + s5 \div B
        L  == <<s6 \div B, s6 % B, s5 % B, s4 % B, s3 % B>>
        big == L[1] >= Pow2(2 * TopBits - LimbBits - 1)
        sh == IF big THEN TopBits ELSE TopBits - 1
        m  == [k \in 1..4 |->
                 (L[k] % Pow2(sh)) * Pow2(LimbBits - sh) + L[k + 1] \div Pow2(sh)]
        guard  == (L[5] \div Pow2(sh - 1)) % 2
        sticky == L[5] % Pow2(sh - 1) # 0 \/ s2 % B # 0 \/ s1 % B # 0 \/ s0 % B # 0
        up == guard = 1 /\ (sticky \/ m[4] % 2 = 1)
        e  == x.exp + y.exp + (IF big THEN 1 ELSE 0)
    IN  IF up THEN FRoundUp(e, m) ELSE [exp |-> e, man |-> m]

\* x < y on floats >= 0
FLess(x, y) ==
    LET a == <<x.exp>> \o x.man
        b == <<y.exp>> \o y.man
    IN  \E k \in 1..5 : a[k] < b[k] /\ \A j \in 1..(k - 1) : a[j] = b[j]

\* the float literals of the source
MIN_RATING_PERCENT == FDiv(80, 100)
F_1_0 == FDiv(1, 1)
F_1_2 == FDiv(12, 10)
F_0_9 == FDiv(9, 10)

(***************************************************************************)
(* Python built-ins the two functions use.                                 *)
(***************************************************************************)
\* d.get(k, default)
Get(d, k, default) == IF k \in DOMAIN d THEN d[k] ELSE default

\* key in all_games_db
InDb(db, key) == \E i \in 1..Len(db) : db[i][1] = key

\* all_games_db[key]
Lookup(db, key) == db[CHOOSE i \in 1..Len(db) : db[i][1] = key][2]

DigitChars == <<"0", "1", "2", "3", "4", "5", "6", "7", "8", "9">>

IsDigit(c) == \E i \in 1..10 : DigitChars[i] = c

DigitVal(c) == (CHOOSE i \in 1..10 : DigitChars[i] = c) - 1

\* str(n) of an int n >= 0
RECURSIVE PyStr(_)
PyStr(n) == IF n < 10 THEN DigitChars[n + 1] ELSE PyStr(n \div 10) \o DigitChars[(n % 10) + 1]

IsSpace(c) == c \in {" ", "\t", "\n"}

\* s.strip()
RECURSIVE Strip(_)
Strip(s) ==
    IF s = <<>> THEN s
    ELSE IF IsSpace(s[1]) THEN Strip(Tail(s))
    ELSE IF IsSpace(s[Len(s)]) THEN Strip(SubSeq(s, 1, Len(s) - 1))
    ELSE s

RECURSIVE DigitsVal(_, _)
DigitsVal(s, acc) == IF s = <<>> THEN acc ELSE DigitsVal(Tail(s), 10 * acc + DigitVal(s[1]))

\* int(s) of a string: surrounding whitespace, an optional sign, decimal digits;
\* ok = FALSE is the ValueError.  (Digit-group underscores are not modelled: no
\* release date of the model holds one.)
PyInt(s) ==
    LET t      == Strip(s)
        signed == t # <<>> /\ t[1] \in {"+", "-"}
        digits == IF signed THEN Tail(t) ELSE t
    IN  IF digits # <<>> /\ \A i \in 1..Len(digits) : IsDigit(digits[i])
        THEN [ok |-> TRUE,
              val |-> IF signed /\ t[1] = "-" THEN 0 - DigitsVal(digits, 0)
                      ELSE DigitsVal(digits, 0)]
        ELSE [ok |-> FALSE, val |-> 0]

\* s[-4:]
Last4(s) == SubSeq(s, IF Len(s) > 4 THEN Len(s) - 3 ELSE 1, Len(s))

\* the tags as a list: a dict gives list(tags.keys())
TagList(tags) == tags.items

NoTags == [type |-> "list", items |-> <<>>]

(***************************************************************************)
(* calculate_tag_weights                                                   *)
(***************************************************************************)
\* tag_playtime[tag] = tag_playtime.get(tag, 0) + playtime, on the dict as the
\* sequence of its <<tag, time>> items in insertion order
AddPlaytime(tag_playtime, tag, playtime) ==
    IF \E i \in 1..Len(tag_playtime) : tag_playtime[i][1] = tag
    THEN [i \in 1..Len(tag_playtime) |->
            IF tag_playtime[i][1] = tag
            THEN <<tag, tag_playtime[i][2] + playtime>>
            ELSE tag_playtime[i]]
    ELSE Append(tag_playtime, <<tag, 0 + playtime>>)

\* for tag in tags: ...
RECURSIVE AddTags(_, _, _)
AddTags(tag_playtime, tags, playtime) ==
    IF tags = <<>> THEN tag_playtime
    ELSE AddTags(AddPlaytime(tag_playtime, tags[1], playtime), Tail(tags), playtime)

\* a bug: the playtime threshold is not applied
TooLittlePlaytimeNever(playtime) == FALSE

\* playtime < MIN_PLAYTIME_MINUTES: continue
TooLittlePlaytime(playtime) == playtime < MIN_PLAYTIME_MINUTES

\* for game in user_games: ... ; the result is <<tag_playtime, valid_games_count>>
RECURSIVE AccumulateGames(_, _, _, _)
AccumulateGames(games, db, tag_playtime, count) ==
    IF games = <<>> THEN <<tag_playtime, count>>
    ELSE
    LET game     == games[1]
        playtime == Get(game, "playtime_forever", 0)
        app_id   == PyStr(game.appid)
    IN  IF TooLittlePlaytime(playtime)
        THEN AccumulateGames(Tail(games), db, tag_playtime, count)
        ELSE IF InDb(db, app_id)
        THEN AccumulateGames(Tail(games), db,
                 AddTags(tag_playtime, TagList(Get(Lookup(db, app_id), "tags", NoTags)), playtime),
                 count + 1)
        ELSE AccumulateGames(Tail(games), db, tag_playtime, count)

\* a bug: the sort is descending
RECURSIVE InsertByTimeDescending(_, _)
InsertByTimeDescending(sorted, x) ==
    IF sorted = <<>> THEN <<x>>
    ELSE IF x[2] > sorted[1][2] THEN <<x>> \o sorted
    ELSE <<sorted[1]>> \o InsertByTimeDescending(Tail(sorted), x)

\* x goes before the first item whose time is larger (the sort is stable)
RECURSIVE InsertByTime(_, _)
InsertByTime(sorted, x) ==
    IF sorted = <<>> THEN <<x>>
    ELSE IF x[2] < sorted[1][2] THEN <<x>> \o sorted
    ELSE <<sorted[1]>> \o InsertByTime(Tail(sorted), x)

\* sorted(tag_playtime.items(), key=lambda x: x[1])
RECURSIVE SortedTags(_)
SortedTags(items) ==
    IF items = <<>> THEN <<>>
    ELSE InsertByTime(SortedTags(SubSeq(items, 1, Len(items) - 1)), items[Len(items)])

\* a bug: the weight is the 0-based rank
RankWeightsFromZero(sorted_tags) ==
    [tag \in {sorted_tags[i][1] : i \in 1..Len(sorted_tags)} |->
        (CHOOSE i \in 1..Len(sorted_tags) : sorted_tags[i][1] = tag) - 1]

\* {tag: rank + 1 for rank, (tag, time) in enumerate(sorted_tags)}
RankWeights(sorted_tags) ==
    [tag \in {sorted_tags[i][1] : i \in 1..Len(sorted_tags)} |->
        (CHOOSE i \in 1..Len(sorted_tags) : sorted_tags[i][1] = tag) - 1 + 1]

\* the result is <<tag_weights, valid_games_count>>
calculate_tag_weights(games, db) ==
    LET acc == AccumulateGames(games, db, <<>>, 0)
    IN  <<RankWeights(SortedTags(acc[1])), acc[2]>>

(***************************************************************************)
(* find_recommendations                                                    *)
(***************************************************************************)
\* a bug: owned entries are not skipped
IsOwnedNever(app_id, owned) == FALSE

\* str(app_id) in owned_ids (the keys of the database are strings already)
IsOwned(app_id, owned) == app_id \in owned

\* int(str(raw_date)[-4:]), 1900 when that raises
release_year(data) ==
    LET raw_date == Get(data, "release_date", <<"1", "9", "0", "0">>)
        parsed   == PyInt(Last4(raw_date))
    IN  IF parsed.ok THEN parsed.val ELSE 1900

\* release_year < min_year: continue
TooOld(year, min) == year < min

\* a bug: "and" for "or"
LowQualityBoth(total_reviews, rating) ==
    total_reviews < MIN_REVIEWS_COUNT /\ FLess(rating, MIN_RATING_PERCENT)

\* total_reviews < MIN_REVIEWS_COUNT or rating < MIN_RATING_PERCENT: continue
LowQuality(total_reviews, rating) ==
    total_reviews < MIN_REVIEWS_COUNT \/ FLess(rating, MIN_RATING_PERCENT)

\* a bug: a tag without a weight counts 1
RECURSIVE weight_sum_default_one(_, _)
weight_sum_default_one(game_tags, weights) ==
    IF game_tags = <<>> THEN 0
    ELSE Get(weights, game_tags[1], 1) + weight_sum_default_one(Tail(game_tags), weights)

\* sum(tag_weights.get(tag, 0) for tag in game_tags)
RECURSIVE weight_sum(_, _)
weight_sum(game_tags, weights) ==
    IF game_tags = <<>> THEN 0
    ELSE Get(weights, game_tags[1], 0) + weight_sum(Tail(game_tags), weights)

\* a bug: the age 10 is discounted already
freshness_bonus_from_ten(age_diff) ==
    IF age_diff <= 5 THEN F_1_2
    ELSE IF age_diff >= 10 THEN F_0_9
    ELSE F_1_0

\* freshness_bonus of age_diff = current_year - release_year
freshness_bonus(age_diff) ==
    IF age_diff <= 5 THEN F_1_2
    ELSE IF age_diff > 10 THEN F_0_9
    ELSE F_1_0

\* avg_score * freshness_bonus
final_score(game_tags, weights, year) ==
    FMul(FDiv(weight_sum(game_tags, weights), Len(game_tags)),
         freshness_bonus(current_year - year))

\* one pass of the loop body: <<>> when the entry is skipped, else its candidate
Candidate(app_id, data, weights, owned, min) ==
    LET year          == release_year(data)
        positive      == Get(data, "positive", 0)
        negative      == Get(data, "negative", 0)
        total_reviews == positive + negative
        rating        == FDiv(positive, total_reviews)
        game_tags     == TagList(Get(data, "tags", NoTags))
    IN  IF IsOwned(app_id, owned) THEN <<>>
        ELSE IF TooOld(year, min) THEN <<>>
        ELSE IF total_reviews = 0 THEN <<>>
        ELSE IF LowQuality(total_reviews, rating) THEN <<>>
        ELSE IF game_tags = <<>> THEN <<>>
        ELSE <<[name         |-> Get(data, "name", "None"),
                appid        |-> app_id,
                score        |-> final_score(game_tags, weights, year),
                rating_val   |-> rating,
                reviews      |-> total_reviews,
                release_year |-> year,
                link         |-> "https://store.steampowered.com/app/" \o app_id \o "/"]>>

\* for app_id, data in all_games_db.items(): ... candidates.append(...)
RECURSIVE Candidates(_, _, _, _)
Candidates(db, weights, owned, min) ==
    IF db = <<>> THEN <<>>
    ELSE Candidate(db[1][1], db[1][2], weights, owned, min)
         \o Candidates(Tail(db), weights, owned, min)

\* a bug: an unstable sort, x goes before the candidates of its own score
RECURSIVE InsertByScoreUnstable(_, _)
InsertByScoreUnstable(sorted, x) ==
    IF sorted = <<>> THEN <<x>>
    ELSE IF ~FLess(x.score, sorted[1].score) THEN <<x>> \o sorted
    ELSE <<sorted[1]>> \o InsertByScoreUnstable(Tail(sorted), x)

\* x goes before the first candidate whose score is smaller: with reverse=True
\* the sort keeps equal scores in their original order
RECURSIVE InsertByScore(_, _)
InsertByScore(sorted, x) ==
    IF sorted = <<>> THEN <<x>>
    ELSE IF FLess(sorted[1].score, x.score) THEN <<x>> \o sorted
    ELSE <<sorted[1]>> \o InsertByScore(Tail(sorted), x)

\* candidates.sort(key=lambda x: x['score'], reverse=True)
RECURSIVE SortedCandidates(_)
SortedCandidates(cands) ==
    IF cands = <<>> THEN <<>>
    ELSE InsertByScore(SortedCandidates(SubSeq(cands, 1, Len(cands) - 1)), cands[Len(cands)])

find_recommendations(db, weights, owned, min) ==
    SortedCandidates(Candidates(db, weights, owned, min))

(***************************************************************************)
(* The inputs.  Catalog entries have the shape of games.json: the tags of  *)
(* an entry are distinct, as a list or as a dict; votes, tags and the      *)
(* release date may be missing.  Every entry carries its own app id.       *)
(***************************************************************************)
NumGames == 3   \* the entries of a catalog given to find_recommendations
MaxUsage == 2   \* the most usage records of a user

\* release dates, as sequences of characters
D2021 == <<"2", "0", "2", "1">>
D2020 == <<"2", "0", "2", "0">>
DOct2016 == <<"O", "c", "t", " ", "2", "1", ",", " ", "2", "0", "1", "6">>
D2015 == <<"2", "0", "1", "5">>
D2027 == <<"2", "0", "2", "7">>
D2023 == <<"2", "0", "2", "3">>
D2022 == <<"2", "0", "2", "2">>
D2024 == <<"2", "0", "2", "4">>
D2019 == <<"2", "0", "1", "9">>
DTBA == <<"T", "B", "A">>

List(items) == [type |-> "list", items |-> items]
Dict(items) == [type |-> "dict", items |-> items]

\* entries that pass the quality filters: ages 5, 6, 10, 11 and -1
P10 == <<"10", [name |-> "Alpha", tags |-> Dict(<<"Action", "Indie">>),
                positive |-> 18000, negative |-> 2000, release_date |-> D2021]>>
P20 == <<"20", [name |-> "Bravo", tags |-> List(<<"RPG">>),
                positive |-> 30000, negative |-> 0, release_date |-> D2020]>>
P30 == <<"30", [name |-> "Charlie", tags |-> Dict(<<"RPG">>),
                positive |-> 80000, negative |-> 20000, release_date |-> DOct2016]>>
P40 == <<"40", [name |-> "Delta", tags |-> List(<<"Indie">>),
                positive |-> 30000, negative |-> 2000, release_date |-> D2015]>>
P50 == <<"50", [name |-> "Echo", tags |-> List(<<"Action", "RPG">>),
                positive |-> 40000, negative |-> 1000, release_date |-> D2027]>>
\* entries that fail one: the rating (twice), the volume, no votes, no tags,
\* a date that does not parse, no date
F61 == <<"61", [name |-> "Foxtrot", tags |-> List(<<"Action">>),
                positive |-> 15000, negative |-> 85000, release_date |-> D2023]>>
F62 == <<"62", [name |-> "Golf", tags |-> List(<<"Indie", "RPG">>),
                positive |-> 79999, negative |-> 20001, release_date |-> D2022]>>
F63 == <<"63", [name |-> "Hotel", tags |-> List(<<"RPG">>),
                positive |-> 19000, negative |-> 999, release_date |-> D2024]>>
F64 == <<"64", [name |-> "India", tags |-> List(<<"Action", "RPG">>),
                release_date |-> D2019]>>
F65 == <<"65", [name |-> "Juliett", tags |-> Dict(<<>>),
                positive |-> 50000, negative |-> 1000, release_date |-> D2022]>>
F66 == <<"66", [name |-> "Kilo", tags |-> List(<<"Action">>),
                positive |-> 40000, negative |-> 1000, release_date |-> DTBA]>>
F67 == <<"67", [name |-> "Lima", tags |-> List(<<"Indie">>),
                positive |-> 40000, negative |-> 1000]>>

\* the entries of the catalogs given to find_recommendations
EntryPool == {P10, P20, P30, P40, P50, F62, F63, F64, F65, F66, F67}

\* the entries the profiler is given: with two tags, one tag, no tag
ProfilePool == {P10, P20, P40, F64, F65}

\* the sequences of n distinct members of S
RECURSIVE Arrangements(_, _)
Arrangements(S, n) ==
    IF n = 0 THEN {<<>>}
    ELSE UNION {{<<x>> \o rest : rest \in Arrangements(S \ {x}, n - 1)} : x \in S}

\* the sequences of at most n members of S
RECURSIVE SeqsUpTo(_, _)
SeqsUpTo(S, n) ==
    IF n = 0 THEN {<<>>}
    ELSE SeqsUpTo(S, n - 1) \cup {Append(q, x) : q \in SeqsUpTo(S, n - 1), x \in S}

\* usage records: above, at and below the playtime threshold, without a
\* playtime, of a game without tags, of a game the catalog lacks
UsagePool ==
    {[appid |-> 10, playtime_forever |-> 300], [appid |-> 10, playtime_forever |-> 120],
     [appid |-> 20, playtime_forever |-> 120], [appid |-> 20, playtime_forever |-> 119],
     [appid |-> 40, playtime_forever |-> 300], [appid |-> 40],
     [appid |-> 65, playtime_forever |-> 300], [appid |-> 999, playtime_forever |-> 300]}

Usages == SeqsUpTo(UsagePool, MaxUsage)

\* weight maps given to find_recommendations: none, all tags, some tags
EmptyWeights == [t \in {} |-> 0]
WeightPool ==
    {EmptyWeights,
     [t \in {"Action", "Indie", "RPG"} |-> CASE t = "Action" -> 1 [] t = "Indie" -> 2 [] OTHER -> 3],
     [t \in {"Action", "Indie"} |-> IF t = "Action" THEN 2 ELSE 1]}

OwnedPool == {{}, {"20", "40", "999"}}

\* year_threshold = st.slider(txt["year"], 2000, 2026, 2015)
YearPool == {2000, 2016}

\* limit = st.slider(txt["limit"], 5, 200, 20)
LimitPool == {5, 20}

Unset == <<>>

(***************************************************************************)
(* calculate_tag_weights alone: every usage and catalog, then the call.    *)
(***************************************************************************)
InitProfile ==
    /\ pc = "profile_in"
    /\ all_games_db \in Arrangements(ProfilePool, NumGames)
    /\ user_games \in Usages
    /\ owned_ids = {}
    /\ min_year = 2000
    /\ limit = 5
    /\ check_price = FALSE
    /\ tag_weights = Unset
    /\ valid_count = 0
    /\ recommendations = Unset
    /\ top_recs = Unset
    /\ idx = 0
    /\ calls = <<>>

CallProfile ==
    /\ pc = "profile_in"
    /\ LET result == calculate_tag_weights(user_games, all_games_db)
       IN  /\ tag_weights' = result[1]
           /\ valid_count' = result[2]
    /\ pc' = "profile_out"
    /\ calls' = Append(calls, "calculate_tag_weights")
    /\ UNCHANGED <<all_games_db, user_games, owned_ids, min_year, limit, check_price,
                   recommendations, top_recs, idx>>

SpecProfile == InitProfile /\ [][CallProfile]_vars

(***************************************************************************)
(* find_recommendations alone: every catalog, weight map, owned set and    *)
(* minimum year, then the call.                                            *)
(***************************************************************************)
InitRank ==
    /\ pc = "rank_in"
    /\ all_games_db \in Arrangements(EntryPool, NumGames)
    /\ user_games = <<>>
    /\ owned_ids \in OwnedPool
    /\ min_year \in YearPool
    /\ limit = 5
    /\ check_price = FALSE
    /\ tag_weights \in WeightPool
    /\ valid_count = 0
    /\ recommendations = Unset
    /\ top_recs = Unset
    /\ idx = 0
    /\ calls = <<>>

CallRank ==
    /\ pc = "rank_in"
    /\ recommendations' = find_recommendations(all_games_db, tag_weights, owned_ids, min_year)
    /\ pc' = "rank_out"
    /\ calls' = Append(calls, "find_recommendations")
    /\ UNCHANGED <<all_games_db, user_games, owned_ids, min_year, limit, check_price,
                   tag_weights, valid_count, top_recs, idx>>

SpecRank == InitRank /\ [][CallRank]_vars

(***************************************************************************)
(* main: one run of the script with the button pressed.                    *)
(***************************************************************************)
\* the databases games.json may hold; <<>> is the missing (or empty) file
DbSamples ==
    {<<P10, P20, P30, P40, P50>>, <<P10, F61, F66>>, <<F65, P20, P40>>, <<>>}

\* what get_actual_price returns: <<price, discount>>
PricePool == {<<"Free", 0>>, <<"N/A", 0>>, <<"Error", 0>>, <<"$9.99", 50>>}

\* d[k] = v on a dict
Put(d, k, v) == [x \in DOMAIN d \cup {k} |-> IF x = k THEN v ELSE d[x]]

\* the sidebar: the widgets hold their values before the button is handled
Init ==
    /\ pc = "load"
    /\ all_games_db = Unset
    /\ user_games = Unset
    /\ owned_ids = {}
    /\ min_year \in YearPool
    /\ limit \in LimitPool
    /\ check_price \in BOOLEAN
    /\ tag_weights = Unset
    /\ valid_count = 0
    /\ recommendations = Unset
    /\ top_recs = Unset
    /\ idx = 0
    /\ calls = <<>>

\* all_games_db = load_games_database(); if not all_games_db: st.error, st.stop
LoadDatabase ==
    /\ pc = "load"
    /\ \E db \in DbSamples :
        /\ all_games_db' = db
        /\ pc' = IF db = <<>> THEN "catalog_unavailable" ELSE "button"
    /\ calls' = Append(calls, "load_games_database")
    /\ UNCHANGED <<user_games, owned_ids, min_year, limit, check_price, tag_weights,
                   valid_count, recommendations, top_recs, idx>>

\* if st.button(...): if not api_key or not steam_id: st.warning, st.stop
PressButton ==
    /\ pc = "button"
    /\ \E has_input \in BOOLEAN : pc' = IF has_input THEN "fetch" ELSE "input_missing"
    /\ UNCHANGED <<all_games_db, user_games, owned_ids, min_year, limit, check_price,
                   tag_weights, valid_count, recommendations, top_recs, idx, calls>>

\* user_games = get_user_games(...) ([] also when the request fails);
\* if not user_games: st.error, st.stop; owned_ids = {str(g['appid']) ...}
FetchUserGames ==
    /\ pc = "fetch"
    /\ \E games \in Usages :
        /\ user_games' = games
        /\ IF games = <<>>
           THEN pc' = "profile_unavailable" /\ owned_ids' = owned_ids
           ELSE /\ pc' = "analyze"
                /\ owned_ids' = {PyStr(games[i].appid) : i \in 1..Len(games)}
    /\ calls' = Append(calls, "get_user_games")
    /\ UNCHANGED <<all_games_db, min_year, limit, check_price, tag_weights,
                   valid_count, recommendations, top_recs, idx>>

\* a bug: the empty mapping is not checked
AnalyzeUnchecked ==
    /\ pc = "analyze"
    /\ LET result == calculate_tag_weights(user_games, all_games_db)
       IN  /\ tag_weights' = result[1]
           /\ valid_count' = result[2]
    /\ pc' = "rank"
    /\ calls' = Append(calls, "calculate_tag_weights")
    /\ UNCHANGED <<all_games_db, user_games, owned_ids, min_year, limit, check_price,
                   recommendations, top_recs, idx>>

\* user_tag_weights, valid_count = calculate_tag_weights(...);
\* if not user_tag_weights: st.warning, st.stop
Analyze ==
    /\ pc = "analyze"
    /\ LET result == calculate_tag_weights(user_games, all_games_db)
       IN  /\ tag_weights' = result[1]
           /\ valid_count' = result[2]
           /\ pc' = IF DOMAIN result[1] = {} THEN "insufficient_data" ELSE "rank"
    /\ calls' = Append(calls, "calculate_tag_weights")
    /\ UNCHANGED <<all_games_db, user_games, owned_ids, min_year, limit, check_price,
                   recommendations, top_recs, idx>>

\* recommendations = find_recommendations(...); top_recs = recommendations[:limit]
Rank ==
    /\ pc = "rank"
    /\ LET recs == find_recommendations(all_games_db, tag_weights, owned_ids, min_year)
       IN  /\ recommendations' = recs
           /\ top_recs' = SubSeq(recs, 1, IF Len(recs) < limit THEN Len(recs) ELSE limit)
    /\ idx' = 0
    /\ pc' = IF check_price THEN "price" ELSE "render"
    /\ calls' = Append(calls, "find_recommendations")
    /\ UNCHANGED <<all_games_db, user_games, owned_ids, min_year, limit, check_price,
                   tag_weights, valid_count>>

\* one pass of: for idx, game in enumerate(top_recs): price, discount = ...
PriceStep ==
    /\ pc = "price"
    /\ idx < Len(top_recs)
    /\ \E result \in PricePool :
        top_recs' = [top_recs EXCEPT ![idx + 1] =
                        Put(Put(@, "price", result[1]), "discount",
                            IF result[2] > 0 THEN "-" \o PyStr(result[2]) \o "%" ELSE "")]
    /\ idx' = idx + 1
    /\ UNCHANGED <<pc, all_games_db, user_games, owned_ids, min_year, limit, check_price,
                   tag_weights, valid_count, recommendations, calls>>

\* the loop is over: status_text.empty(), progress_bar.empty()
PriceDone ==
    /\ pc = "price"
    /\ idx = Len(top_recs)
    /\ pc' = "render"
    /\ UNCHANGED <<all_games_db, user_games, owned_ids, min_year, limit, check_price,
                   tag_weights, valid_count, recommendations, top_recs, idx, calls>>

\* the rows, the data frame and st.dataframe(...), whose column_config takes
\* max(g['score'] for g in top_recs): a ValueError when top_recs is empty
Render ==
    /\ pc = "render"
    /\ pc' = IF top_recs = <<>> THEN "raised" ELSE "presented"
    /\ UNCHANGED <<all_games_db, user_games, owned_ids, min_year, limit, check_price,
                   tag_weights, valid_count, recommendations, top_recs, idx, calls>>

Next ==
    \/ LoadDatabase
    \/ PressButton
    \/ FetchUserGames
    \/ Analyze
    \/ Rank
    \/ PriceStep
    \/ PriceDone
    \/ Render

Spec == Init /\ [][Next]_vars

(***************************************************************************)
(* Properties of calculate_tag_weights (SpecProfile).                      *)
(***************************************************************************)
Playtime(i) == Get(user_games[i], "playtime_forever", 0)

\* the usage records that qualify: enough playtime, and a key of the catalog
QualifyingRecords ==
    {i \in 1..Len(user_games) :
        /\ Playtime(i) >= MIN_PLAYTIME_MINUTES
        /\ \E j \in 1..Len(all_games_db) : all_games_db[j][1] = PyStr(user_games[i].appid)}

\* the tags of the catalog entry of usage record i
EntryTags(i) ==
    LET data  == Lookup(all_games_db, PyStr(user_games[i].appid))
        items == IF "tags" \in DOMAIN data THEN data.tags.items ELSE <<>>
    IN  {items[k] : k \in 1..Len(items)}

QualifyingTags == UNION {EntryTags(i) : i \in QualifyingRecords}

\* the playtime accumulated for tag t by the first n usage records
RECURSIVE TotalUpTo(_, _)
TotalUpTo(t, n) ==
    IF n = 0 THEN 0
    ELSE TotalUpTo(t, n - 1)
         + (IF n \in QualifyingRecords /\ t \in EntryTags(n) THEN Playtime(n) ELSE 0)

Total(t) == TotalUpTo(t, Len(user_games))

\* C1: the weights calculate_tag_weights returns are the values 1..K, each used
\* once, K being the number of distinct tags of the catalog entries of the
\* qualifying usage records.
C1_WeightsArePermutation ==
    pc = "profile_out" =>
        LET K == Cardinality(QualifyingTags)
        IN  /\ DOMAIN tag_weights = QualifyingTags
            /\ {tag_weights[t] : t \in DOMAIN tag_weights} = 1..K
            /\ \A t1, t2 \in DOMAIN tag_weights :
                   t1 # t2 => tag_weights[t1] # tag_weights[t2]

C1_Witness == pc = "profile_out" /\ Cardinality(QualifyingTags) = 3

\* C2: the weights agree with the accumulated playtime: a tag with less playtime
\* has the smaller weight, so the weight K goes to a tag of the highest playtime
\* and the weight 1 to a tag of the lowest.
C2_WeightOrderFollowsPlaytime ==
    pc = "profile_out" =>
        LET K == Cardinality(DOMAIN tag_weights)
        IN  /\ \A t1, t2 \in DOMAIN tag_weights :
                   Total(t1) < Total(t2) => tag_weights[t1] < tag_weights[t2]
            /\ \A t \in DOMAIN tag_weights :
                   /\ tag_weights[t] = K =>
                          \A u \in DOMAIN tag_weights : Total(u) <= Total(t)
                   /\ tag_weights[t] = 1 =>
                          \A u \in DOMAIN tag_weights : Total(t) <= Total(u)

C2_Witness ==
    /\ pc = "profile_out"
    /\ Cardinality(DOMAIN tag_weights) = 3
    /\ \E t1, t2 \in DOMAIN tag_weights : Total(t1) < Total(t2)

\* C7: with no usage, or no record that has the minimum playtime, or no such
\* record whose app id is a key of the catalog, calculate_tag_weights returns
\* an empty mapping and the count 0.
C7_NothingQualifiesGivesEmpty ==
    (/\ pc = "profile_out"
     /\ \/ user_games = <<>>
        \/ \A i \in 1..Len(user_games) : Playtime(i) < MIN_PLAYTIME_MINUTES
        \/ \A i \in 1..Len(user_games) :
               Playtime(i) >= MIN_PLAYTIME_MINUTES =>
                   \A j \in 1..Len(all_games_db) :
                       all_games_db[j][1] # PyStr(user_games[i].appid))
    => (DOMAIN tag_weights = {} /\ valid_count = 0)

\* a record with too little playtime of a game the catalog has, and one with
\* enough playtime of a game the catalog lacks
C7_Witness ==
    /\ pc = "profile_out"
    /\ QualifyingRecords = {}
    /\ \E i \in 1..Len(user_games) : Playtime(i) >= MIN_PLAYTIME_MINUTES
    /\ \E i \in 1..Len(user_games) :
           /\ Playtime(i) < MIN_PLAYTIME_MINUTES
           /\ EntryTags(i) # {}
    /\ DOMAIN tag_weights = {}
    /\ valid_count = 0

(***************************************************************************)
(* Properties of find_recommendations (SpecRank).                          *)
(***************************************************************************)
\* the place of an app id in the iteration order of the catalog
DbIndex(app_id) == CHOOSE j \in 1..Len(all_games_db) : all_games_db[j][1] = app_id

Recommended(app_id) ==
    \E i \in 1..Len(recommendations) : recommendations[i].appid = app_id

Positive(data) == IF "positive" \in DOMAIN data THEN data.positive ELSE 0

TotalReviews(data) ==
    Positive(data) + (IF "negative" \in DOMAIN data THEN data.negative ELSE 0)

TagsOf(data) == IF "tags" \in DOMAIN data THEN data.tags.items ELSE <<>>

\* the last four characters of the release date are not an integer
DateUnparsed(data) ==
    "release_date" \in DOMAIN data /\ ~PyInt(Last4(data.release_date)).ok

\* positive / total >= 80 %, in exact arithmetic
RatingAtLeast80(data) == 100 * Positive(data) >= 80 * TotalReviews(data)

\* the entry passes the four filters of the ranker
PassesFilters(data) ==
    /\ release_year(data) >= min_year
    /\ TotalReviews(data) >= MIN_REVIEWS_COUNT
    /\ RatingAtLeast80(data)
    /\ TagsOf(data) # <<>>

\* C3: no candidate of the list find_recommendations returns is owned.
C3_NoOwnedCandidate ==
    pc = "rank_out" =>
        \A i \in 1..Len(recommendations) : recommendations[i].appid \notin owned_ids

\* an owned entry that passes every filter, beside a candidate
C3_Witness ==
    /\ pc = "rank_out"
    /\ recommendations # <<>>
    /\ \E j \in 1..Len(all_games_db) :
           all_games_db[j][1] \in owned_ids /\ PassesFilters(all_games_db[j][2])

\* C4: the list holds no entry released before the minimum year, none with
\* fewer than MIN_REVIEWS_COUNT reviews (none included), none rated below
\* MIN_RATING_PERCENT and none without tags; a release date that does not parse
\* counts as the year 1900.
C4_FilteredEntriesAbsent ==
    pc = "rank_out" =>
        \A j \in 1..Len(all_games_db) :
            LET data == all_games_db[j][2]
            IN  (\/ release_year(data) < min_year
                 \/ DateUnparsed(data) /\ 1900 < min_year
                 \/ TotalReviews(data) < MIN_REVIEWS_COUNT
                 \/ ~RatingAtLeast80(data)
                 \/ TagsOf(data) = <<>>)
                => ~Recommended(all_games_db[j][1])

\* beside a candidate: an entry whose date does not parse and an entry that
\* fails the rating alone, neither owned
C4_Witness ==
    /\ pc = "rank_out"
    /\ recommendations # <<>>
    /\ \E j \in 1..Len(all_games_db) :
           /\ all_games_db[j][1] \notin owned_ids
           /\ DateUnparsed(all_games_db[j][2])
    /\ \E j \in 1..Len(all_games_db) :
           LET data == all_games_db[j][2]
           IN  /\ all_games_db[j][1] \notin owned_ids
               /\ release_year(data) >= min_year
               /\ TotalReviews(data) >= MIN_REVIEWS_COUNT
               /\ TagsOf(data) # <<>>
               /\ ~RatingAtLeast80(data)

\* C5: the list is in descending order of score, and candidates of equal score
\* are in the order of their entries in the catalog.
C5_SortedDescendingStable ==
    pc = "rank_out" =>
        \A i, j \in 1..Len(recommendations) :
            i < j =>
                /\ ~FLess(recommendations[i].score, recommendations[j].score)
                /\ recommendations[i].score = recommendations[j].score =>
                       DbIndex(recommendations[i].appid) < DbIndex(recommendations[j].appid)

\* two candidates tie on a score above zero, and a third was moved ahead of or
\* behind its place in the catalog
C5_Witness ==
    /\ pc = "rank_out"
    /\ \E i, j \in 1..Len(recommendations) :
           /\ i < j
           /\ recommendations[i].score = recommendations[j].score
           /\ recommendations[i].score # FZero
    /\ \E i, j \in 1..Len(recommendations) :
           /\ i < j
           /\ FLess(recommendations[j].score, recommendations[i].score)
           /\ DbIndex(recommendations[i].appid) > DbIndex(recommendations[j].appid)

\* the sum of the weights of the first n tags, 0 for a tag without a weight
RECURSIVE ExpectedSum(_, _)
ExpectedSum(tags, n) ==
    IF n = 0 THEN 0
    ELSE ExpectedSum(tags, n - 1)
         + (IF tags[n] \in DOMAIN tag_weights THEN tag_weights[tags[n]] ELSE 0)

\* the multiplier the specification gives an age
ExpectedMultiplier(age) ==
    CASE age <= 5 -> FDiv(12, 10)
      [] age > 5 /\ age <= 10 -> FDiv(10, 10)
      [] age > 10 -> FDiv(9, 10)

\* C6: with age = 2026 - release_year, the score of a candidate carries the
\* multiplier 1.2 for an age <= 5, 1.0 for 5 < age <= 10 and 0.9 for an age > 10.
C6_FreshnessMultiplier ==
    pc = "rank_out" =>
        \A i \in 1..Len(recommendations) :
            LET c    == recommendations[i]
                tags == TagsOf(Lookup(all_games_db, c.appid))
                year == release_year(Lookup(all_games_db, c.appid))
            IN  c.score = FMul(FDiv(ExpectedSum(tags, Len(tags)), Len(tags)),
                               ExpectedMultiplier(2026 - year))

\* candidates of the ages 5, 10 and 11, each with a score above zero
C6_Witness ==
    /\ pc = "rank_out"
    /\ \A age \in {5, 10, 11} :
           \E i \in 1..Len(recommendations) :
               /\ 2026 - recommendations[i].release_year = age
               /\ recommendations[i].score # FZero

\* C9: every entry that is not owned and passes the filters has a candidate, and
\* its score is the sum of the weights of its tags (0 for a tag without a
\* weight) divided by the number of its tags, times its freshness multiplier.
C9_PassingEntryIsScored ==
    pc = "rank_out" =>
        \A j \in 1..Len(all_games_db) :
            LET app_id == all_games_db[j][1]
                data   == all_games_db[j][2]
                tags   == TagsOf(data)
            IN  (app_id \notin owned_ids /\ PassesFilters(data)) =>
                    /\ Cardinality({i \in 1..Len(recommendations) :
                                       recommendations[i].appid = app_id}) = 1
                    /\ \A i \in 1..Len(recommendations) :
                           recommendations[i].appid = app_id =>
                               recommendations[i].score =
                                   FMul(FDiv(ExpectedSum(tags, Len(tags)), Len(tags)),
                                        freshness_bonus(current_year - release_year(data)))

\* a candidate with one tag that has a weight and one that has none
C9_Witness ==
    /\ pc = "rank_out"
    /\ \E i \in 1..Len(recommendations) :
           LET tags == TagsOf(Lookup(all_games_db, recommendations[i].appid))
           IN  /\ \E k \in 1..Len(tags) : tags[k] \in DOMAIN tag_weights
               /\ \E k \in 1..Len(tags) : tags[k] \notin DOMAIN tag_weights

(***************************************************************************)
(* Properties of main (Spec).                                              *)
(***************************************************************************)
Called(f) == \E k \in 1..Len(calls) : calls[k] = f

\* the run was stopped by st.stop() for want of usage or of weights
Stopped == pc \in {"profile_unavailable", "insufficient_data"}

\* C8: find_recommendations is called only after get_user_games returned a
\* non-empty list and calculate_tag_weights a non-empty mapping; an empty list
\* stops the run as "profile unavailable" with neither function called, an empty
\* mapping stops it as "insufficient data", and a stopped run does nothing more.
C8_RankOnlyAfterUsageAndWeights ==
    /\ [](/\ Called("find_recommendations") =>
                /\ user_games # <<>>
                /\ DOMAIN tag_weights # {}
                /\ calls = <<"load_games_database", "get_user_games",
                             "calculate_tag_weights", "find_recommendations">>
          /\ (Called("get_user_games") /\ user_games = <<>>) =>
                /\ pc = "profile_unavailable"
                /\ ~Called("calculate_tag_weights")
                /\ ~Called("find_recommendations")
          /\ (Called("calculate_tag_weights") /\ DOMAIN tag_weights = {}) =>
                /\ pc = "insufficient_data"
                /\ ~Called("find_recommendations")
          /\ pc = "profile_unavailable" => user_games = <<>>
          /\ pc = "insufficient_data" => user_games # <<>> /\ DOMAIN tag_weights = {})
    /\ [][Stopped => UNCHANGED vars]_vars

\* usage that qualifies (a game without tags) and still no weights
C8_Witness ==
    /\ pc = "insufficient_data"
    /\ user_games # <<>>
    /\ valid_count > 0
    /\ DOMAIN tag_weights = {}

\* C10: a run that reaches the ranking step ends presented, whatever list
\* find_recommendations returns, the empty list included.
C10_RankedRunIsPresented ==
    Called("find_recommendations") => pc \in {"price", "render", "presented"}

====
